---- MODULE Spec2Model ----
(***************************************************************************)
(* PaymentService (src/services/PaymentService.js): the in-memory order    *)
(* and payment stores and the operations that create orders, verify        *)
(* client confirmations, record client failures and process webhooks.      *)
(*                                                                         *)
(* JavaScript runs every method to completion: none of the async methods   *)
(* awaits anything that exists, so each call is one atomic step.           *)
(*                                                                         *)
(* Values: identifiers, secrets, digests and timestamps are strings.       *)
(* Undefined stands for JavaScript's undefined in a string-valued slot,    *)
(* UndefinedObj for undefined in an object-valued slot, NotANumber for     *)
(* undefined/NaN in a number-valued slot.                                  *)
(***************************************************************************)
EXTENDS Integers, Sequences, FiniteSets, TLC

VARIABLES
    orders,     \* this.orders: order id -> Order
    payments,   \* this.payments: sequence of Payment in Map insertion order
    now,        \* Date.now(), in milliseconds
    last        \* the most recent call: operation, arguments, outcome

vars == <<orders, payments, now, last>>

(***************************************************************************)
(* Bounds of the model.                                                    *)
(***************************************************************************)
MaxOrders == 1
MaxTicks == 1

(***************************************************************************)
(* JavaScript values.                                                      *)
(***************************************************************************)
Undefined == "undefined"
UndefinedObj == [undefined |-> TRUE]
NotANumber == -1

Falsy(s) == s \in {Undefined, ""}

OrDefault(s, d) == IF Falsy(s) THEN d ELSE s

\* number * 100, NaN when the number is undefined
Times100(n) == IF n = NotANumber THEN NotANumber ELSE n * 100

\* `${number}`
NumberText(n) == IF n = NotANumber THEN Undefined ELSE ToString(n)

\* number / 100, NaN staying NaN
Div100(n) == IF n = NotANumber THEN NotANumber ELSE n \div 100

(***************************************************************************)
(* constructor                                                             *)
(***************************************************************************)
KeyId == "rzp_key_id"
KeySecret == "rzp_key_secret"
WebhookSecret == "rzp_webhook_secret"

razorpayConfig ==
    [keyId |-> KeyId, keySecret |-> KeySecret, webhookSecret |-> WebhookSecret,
     baseUrl |-> "https://api.razorpay.com/v1"]

PlanKeys == {"basic", "standard", "premium", "report"}

plans ==
    [basic    |-> [questions |-> 5,  price |-> 199, name |-> "Basic Plan"],
     standard |-> [questions |-> 10, price |-> 299, name |-> "Standard Plan"],
     premium  |-> [questions |-> 20, price |-> 399, name |-> "Premium Plan"],
     report   |-> [questions |-> 0,  price |-> 999, name |-> "Full Report"]]

\* The property names the catalog object inherits from Object.prototype.
\* The value found under __proto__ is Object.prototype itself, under each
\* other name a function: all truthy, none with a price or questions.
InheritedKeys ==
    {"constructor", "__defineGetter__", "__defineSetter__", "hasOwnProperty",
     "__lookupGetter__", "__lookupSetter__", "isPrototypeOf",
     "propertyIsEnumerable", "toString", "valueOf", "__proto__",
     "toLocaleString"}

\* The name property of the value found under an inherited name: the
\* function's own name (Object for the constructor), and none for
\* Object.prototype.
InheritedName(key) ==
    CASE key = "constructor" -> "Object"
      [] key = "__proto__"   -> Undefined
      [] OTHER               -> key

\* this.plans[planType]
PlanLookup(planType) ==
    IF planType \in PlanKeys THEN plans[planType]
    ELSE IF planType \in InheritedKeys
         THEN [questions |-> NotANumber, price |-> NotANumber,
               name |-> InheritedName(planType)]
         ELSE UndefinedObj

(***************************************************************************)
(* Time and strings.                                                       *)
(***************************************************************************)
\* The instants the model's clock takes: the last millisecond of one second
\* and the first of the next.
Clock == 1999 .. (1999 + MaxTicks)

\* new Date(ms).toISOString(): the instant written out as text
toISOString(ms) == "T" \o ToString(ms) \o "Z"

\* new Date(text): the instant an ISO text names
DateParse(text) == CHOOSE ms \in Clock : toISOString(ms) = text

\* What a further read of the clock within a call may find: the instant the
\* call began at, or a later one.
LaterReads == {ms \in Clock : ms >= now}

\* Math.floor(ms / 1000)
UnixSeconds(ms) == ms \div 1000

\* order_${Date.now()}_${Math.random().toString(36).substr(2, 9)}
OrderIdOf(ms, suffix) == "order_" \o ToString(ms) \o "_" \o suffix

\* crypto.createHmac('sha256', key).update(message).digest('hex'): a keyed
\* digest, equal for equal key and message and for nothing else
HmacSha256Hex(key, message) == "hmac(" \o key \o ";" \o message \o ")"

\* `${razorpay_order_id}|${razorpay_payment_id}`
ConfirmationMessage(orderId, paymentId) == orderId \o "|" \o paymentId

(***************************************************************************)
(* Map operations.  this.orders is never iterated, so it is a function;    *)
(* this.payments is iterated by getUserPayments, so it keeps the Map's     *)
(* insertion order: a sequence of records, each with its key in `id`.      *)
(***************************************************************************)
OrderIds == DOMAIN orders

OrdersSet(m, key, value) ==
    [k \in (DOMAIN m) \cup {key} |-> IF k = key THEN value ELSE m[k]]

PaymentIdsOf(m) == {m[i].id : i \in 1..Len(m)}

PaymentsHas(m, key) == key \in PaymentIdsOf(m)

PaymentsGet(m, key) == m[CHOOSE i \in 1..Len(m) : m[i].id = key]

\* a set that stores nothing
PaymentsSet_StoresNothing(m, key, value) == m

\* Map.prototype.set: an existing key keeps its place, a new key goes last
PaymentsSet(m, key, value) ==
    IF PaymentsHas(m, key)
    THEN [i \in 1..Len(m) |-> IF m[i].id = key THEN value ELSE m[i]]
    ELSE Append(m, value)

(***************************************************************************)
(* The record of a call.                                                   *)
(***************************************************************************)
\* A call that returned is kept with its arguments and its response, a
\* call that threw with the message of the error.
Returned(op, args, response) ==
    [op |-> op, args |-> args, ok |-> TRUE, error |-> "",
     response |-> response]

Threw(op, message) ==
    [op |-> op, args |-> <<>>, ok |-> FALSE, error |-> message,
     response |-> UndefinedObj]

(***************************************************************************)
(* createOrder(userId, planType, userDetails); suffix is what              *)
(* Math.random().toString(36).substr(2, 9) yields in this call.  The call  *)
(* reads the clock twice: Date.now() for the id finds `now`, Date.now()    *)
(* for created_at finds `later`.                                           *)
(***************************************************************************)
NewOrder(orderId, userId, planType, userDetails, plan, later) ==
    [id          |-> orderId,
     entity      |-> "order",
     amount      |-> Times100(plan.price),
     currency    |-> "INR",
     status      |-> "created",
     attempts    |-> 0,
     created_at  |-> UnixSeconds(later),
     notes       |-> [userId     |-> userId,
                      planType   |-> planType,
                      userName   |-> OrDefault(userDetails.name, "User"),
                      userMobile |-> OrDefault(userDetails.mobile, "")],
     userId      |-> userId,
     planType    |-> planType,
     userDetails |-> userDetails,
     plan        |-> plan,
     paymentId   |-> Undefined,
     error       |-> UndefinedObj,
     failedAt    |-> Undefined]

\* The character U+2728 of the image address, written as JavaScript
\* escapes it: a module holds ASCII only.
Sparkles == "\\u2728"

\* A function-valued field.
FunctionValue == "function"

OrderDescriptor(orderId, userDetails, plan) ==
    [id          |-> orderId,
     amount      |-> Times100(plan.price),
     currency    |-> "INR",
     key         |-> razorpayConfig.keyId,
     name        |-> "ChatAstro",
     description |-> plan.name \o " - " \o NumberText(plan.questions)
                        \o " Questions",
     image       |-> "https://via.placeholder.com/200x200/4a148c/ffffff?text="
                        \o Sparkles,
     prefill     |-> [name    |-> OrDefault(userDetails.name, ""),
                      contact |-> OrDefault(userDetails.mobile, ""),
                      email   |-> OrDefault(userDetails.email, "")],
     theme       |-> [color |-> "#4a148c"],
     modal       |-> [ondismiss |-> FunctionValue]]

createOrder(userId, planType, userDetails, suffix, later) ==
    LET plan == PlanLookup(planType)
        orderId == OrderIdOf(now, suffix)
    IN  IF plan = UndefinedObj
        THEN \* thrown before the clock is read
             /\ later = now
             /\ last' = Threw("createOrder",
                    "Failed to create payment order: Invalid plan type")
             /\ UNCHANGED <<orders, payments, now>>
        ELSE IF userDetails = UndefinedObj
        THEN \* thrown at userDetails.name, after both reads of the clock
             /\ last' = Threw("createOrder",
                    "Failed to create payment order: Cannot read properties of undefined (reading 'name')")
             /\ now' = later
             /\ UNCHANGED <<orders, payments>>
        ELSE /\ orders' = OrdersSet(orders, orderId,
                    NewOrder(orderId, userId, planType, userDetails, plan,
                             later))
             /\ last' = Returned("createOrder",
                    <<userId, planType, userDetails>>,
                    [success |-> TRUE,
                     order |-> OrderDescriptor(orderId, userDetails, plan)])
             /\ now' = later
             /\ UNCHANGED payments

(***************************************************************************)
(* verifyPayment(paymentData).  A call that stores a Payment reads the     *)
(* clock twice: new Date() for createdAt finds `now`, new Date() for       *)
(* verifiedAt finds `later`.                                               *)
(***************************************************************************)
PaymentRecord(order, paymentId, later) ==
    [id         |-> paymentId,
     orderId    |-> order.id,
     amount     |-> order.amount,
     currency   |-> order.currency,
     status     |-> "captured",
     method     |-> "card",
     userId     |-> order.userId,
     planType   |-> order.planType,
     plan       |-> order.plan,
     createdAt  |-> toISOString(now),
     verifiedAt |-> toISOString(later)]

\* generated_signature !== razorpay_signature, negated
SignatureMatches_AcceptsAny(generated, supplied) == TRUE

SignatureMatches(generated, supplied) == generated = supplied

verifyPayment(paymentData, later) ==
    LET razorpay_order_id == paymentData.razorpay_order_id
        razorpay_payment_id == paymentData.razorpay_payment_id
        razorpay_signature == paymentData.razorpay_signature
        generated_signature ==
            HmacSha256Hex(razorpayConfig.keySecret,
                ConfirmationMessage(razorpay_order_id, razorpay_payment_id))
    IN  IF \/ Falsy(razorpay_order_id)
           \/ Falsy(razorpay_payment_id)
           \/ Falsy(razorpay_signature)
        THEN /\ later = now
             /\ last' = Threw("verifyPayment",
                    "Payment verification failed: Missing payment verification data")
             /\ UNCHANGED <<orders, payments, now>>
        ELSE IF razorpay_order_id \notin OrderIds
        THEN /\ later = now
             /\ last' = Threw("verifyPayment",
                    "Payment verification failed: Order not found")
             /\ UNCHANGED <<orders, payments, now>>
        ELSE IF ~SignatureMatches(generated_signature, razorpay_signature)
        THEN /\ later = now
             /\ last' = Threw("verifyPayment",
                    "Payment verification failed: Invalid payment signature")
             /\ UNCHANGED <<orders, payments, now>>
        ELSE LET order == orders[razorpay_order_id]
                 paymentRecord == PaymentRecord(order, razorpay_payment_id, later)
                 paid == [order EXCEPT !.status = "paid",
                                       !.paymentId = razorpay_payment_id]
             IN  /\ payments' = PaymentsSet(payments, razorpay_payment_id,
                                            paymentRecord)
                 /\ orders' = OrdersSet(orders, razorpay_order_id, paid)
                 /\ last' = Returned("verifyPayment", paymentData,
                        [success |-> TRUE, payment |-> paymentRecord,
                         order |-> paid])
                 /\ now' = later

(***************************************************************************)
(* handlePaymentFailure(orderId, errorData)                                *)
(***************************************************************************)
handlePaymentFailure(orderId, errorData) ==
    LET failed == [orders[orderId] EXCEPT !.status = "failed",
                                          !.error = errorData,
                                          !.failedAt = toISOString(now)]
    IN  /\ orders' = IF orderId \in OrderIds
                     THEN OrdersSet(orders, orderId, failed)
                     ELSE orders
        \* errorData.description is read for the log after the order is stored
        /\ last' = IF errorData = UndefinedObj
                   THEN Threw("handlePaymentFailure",
                            "Cannot read properties of undefined (reading 'description')")
                   ELSE Returned("handlePaymentFailure",
                            <<orderId, errorData>>,
                            [success |-> FALSE,
                             message |-> "Payment failed. Please try again.",
                             error |-> errorData])
        /\ UNCHANGED <<payments, now>>

(***************************************************************************)
(* getPaymentStatus(orderId)                                               *)
(***************************************************************************)
\* JavaScript's null in an object-valued slot.
Null == [null |-> TRUE]

\* The value getPaymentStatus returns.
getPaymentStatus(orderId) ==
    IF orderId \notin OrderIds
    THEN Null
    ELSE LET order == orders[orderId]
             found == /\ ~Falsy(order.paymentId)
                      /\ PaymentsHas(payments, order.paymentId)
             payment == PaymentsGet(payments, order.paymentId)
         IN  [order   |-> [id        |-> order.id,
                           amount    |-> order.amount,
                           status    |-> order.status,
                           createdAt |-> order.created_at],
              payment |-> IF found
                          THEN [id         |-> payment.id,
                                status     |-> payment.status,
                                method     |-> payment.method,
                                verifiedAt |-> payment.verifiedAt]
                          ELSE Null]

(***************************************************************************)
(* getUserPayments(userId)                                                 *)
(***************************************************************************)
\* The entry pushed for a payment of the user.
HistoryEntry(payment) ==
    [id        |-> payment.id,
     orderId   |-> payment.orderId,
     amount    |-> Div100(payment.amount),
     planType  |-> payment.planType,
     planName  |-> payment.plan.name,
     questions |-> payment.plan.questions,
     status    |-> payment.status,
     createdAt |-> payment.createdAt]

\* oldest first: new Date(a.createdAt) - new Date(b.createdAt)
CompareCreatedAt_Ascending(a, b) ==
    DateParse(a.createdAt) - DateParse(b.createdAt)

\* (a, b) => new Date(b.createdAt) - new Date(a.createdAt)
CompareCreatedAt(a, b) == DateParse(b.createdAt) - DateParse(a.createdAt)

\* Array.prototype.sort with that comparator.  The sort is stable, so its
\* result is the one of inserting the elements one by one, each behind all
\* the elements that do not compare after it.
SortInsert(sorted, x) ==
    LET before == Cardinality({i \in 1..Len(sorted) :
                                  CompareCreatedAt(sorted[i], x) <= 0})
    IN  SubSeq(sorted, 1, before) \o <<x>>
            \o SubSeq(sorted, before + 1, Len(sorted))

RECURSIVE ArraySort(_)
ArraySort(array) ==
    IF array = <<>>
    THEN <<>>
    ELSE SortInsert(ArraySort(SubSeq(array, 1, Len(array) - 1)),
                    array[Len(array)])

\* The value getUserPayments returns.
getUserPayments(userId) ==
    LET mine == SelectSeq(payments, LAMBDA payment : payment.userId = userId)
        userPayments == [i \in 1..Len(mine) |-> HistoryEntry(mine[i])]
    IN  ArraySort(userPayments)

\* A call of getUserPayments, which writes nothing.
CallGetUserPayments(userId) ==
    /\ last' = Returned("getUserPayments", <<userId>>,
                    getUserPayments(userId))
    /\ UNCHANGED <<orders, payments, now>>

(***************************************************************************)
(* validateWebhook(body, signature)                                        *)
(***************************************************************************)
\* every signature accepted
validateWebhook_AcceptsAny(body, signature) == TRUE

\* update(body) throws for a body that is undefined; the catch returns false
validateWebhook(body, signature) ==
    IF body = Undefined
    THEN FALSE
    ELSE HmacSha256Hex(razorpayConfig.webhookSecret, body) = signature

\* A call of validateWebhook, which returns what it computes and writes
\* nothing.
CallValidateWebhook(body, signature) ==
    /\ last' = Returned("validateWebhook", <<body, signature>>,
                    validateWebhook(body, signature))
    /\ UNCHANGED <<orders, payments, now>>

(***************************************************************************)
(* processWebhook(eventData)                                               *)
(***************************************************************************)
\* The methods class PaymentService defines.
Methods ==
    {"createOrder", "verifyPayment", "handlePaymentFailure", "getPaymentStatus",
     "getUserPayments", "validateWebhook", "processWebhook", "getPlanDetails",
     "getAllPlans"}

\* a default case that dispatches too
WebhookHandler_DefaultDispatches(event) ==
    CASE event = "payment.captured" -> "handlePaymentCaptured"
      [] event = "payment.failed"   -> "handlePaymentFailed"
      [] event = "order.paid"       -> "handleOrderPaid"
      [] OTHER                      -> "handleUnknownEvent"

\* The method the switch on the event calls; "" in the default case.
WebhookHandler(event) ==
    CASE event = "payment.captured" -> "handlePaymentCaptured"
      [] event = "payment.failed"   -> "handlePaymentFailed"
      [] event = "order.paid"       -> "handleOrderPaid"
      [] OTHER                      -> ""

\* The part of the payload the case of the event reads.
PayloadPart(event) == IF event = "order.paid" THEN "order" ELSE "payment"

\* The property whose read fails while the argument of the handler is
\* evaluated: payload.payment (payload.order) of a missing payload, .entity
\* of a missing part; "" when the argument is there.
FailedRead(eventData) ==
    IF eventData.payload = UndefinedObj
    THEN PayloadPart(eventData.event)
    ELSE IF eventData.payload[PayloadPart(eventData.event)] = UndefinedObj
         THEN "entity"
         ELSE ""

\* payment.failed routed to the failure transition
processWebhook_AppliesFailure(eventData) ==
    LET handler == WebhookHandler(eventData.event)
        target == eventData.payload.payment.entity.order_id
    IN  IF eventData.event = "payment.failed"
        THEN /\ orders' = IF target \in OrderIds
                          THEN OrdersSet(orders, target,
                                   [orders[target] EXCEPT !.status = "failed"])
                          ELSE orders
             /\ last' = Returned("processWebhook", eventData,
                        [success |-> TRUE])
             /\ UNCHANGED <<payments, now>>
        ELSE IF handler # "" /\ handler \notin Methods
        THEN /\ last' = Threw("processWebhook",
                    "this." \o handler \o " is not a function")
             /\ UNCHANGED <<orders, payments, now>>
        ELSE /\ last' = Returned("processWebhook", eventData,
                        [success |-> TRUE])
             /\ UNCHANGED <<orders, payments, now>>

processWebhook(eventData) ==
    LET handler == WebhookHandler(eventData.event)
    IN  IF handler # "" /\ FailedRead(eventData) # ""
        THEN \* the argument is evaluated before the call: the read throws
             /\ last' = Threw("processWebhook",
                    "Cannot read properties of undefined (reading '"
                        \o FailedRead(eventData) \o "')")
             /\ UNCHANGED <<orders, payments, now>>
        ELSE IF handler # "" /\ handler \notin Methods
        THEN \* this[handler] is undefined: the call throws, the catch rethrows
             /\ last' = Threw("processWebhook",
                    "this." \o handler \o " is not a function")
             /\ UNCHANGED <<orders, payments, now>>
        ELSE /\ last' = Returned("processWebhook", eventData,
                        [success |-> TRUE])
             /\ UNCHANGED <<orders, payments, now>>

(***************************************************************************)
(* The clock.                                                              *)
(***************************************************************************)
Tick ==
    /\ now + 1 \in Clock
    /\ now' = now + 1
    /\ UNCHANGED <<orders, payments, last>>

(***************************************************************************)
(* Inputs.                                                                 *)
(***************************************************************************)
Details == [name |-> "Asha", mobile |-> "9000000001", email |-> Undefined]

\* (userId, planType, userDetails): two catalog plans, a plan the catalog
\* lacks, and a call without user details.
CreateInputs ==
    {<<"u1", "standard", Details>>, <<"u2", "basic", Details>>,
     <<"u1", "gold", Details>>, <<"u2", "standard", UndefinedObj>>}

\* What Math.random().toString(36).substr(2, 9) may yield.  Math.random is
\* free to repeat itself; with the one value here, two calls in one
\* millisecond generate the same id and calls in different milliseconds
\* different ids.
RandomSuffixes == {"k3x9q2m1a"}

PaymentIdInputs == {"pay_1", "pay_2"}

UnknownOrderId == "order_0_unknown00"

OrderIdInputs == OrderIds \cup {UnknownOrderId}

OtherPaymentId(p) == CHOOSE q \in PaymentIdInputs : q # p

\* The digests a caller may submit with the pair (o, p): the gateway's for
\* that pair, one made with another secret, and the gateway's for a
\* different pair.
SignatureInputs(o, p) ==
    {HmacSha256Hex(KeySecret, ConfirmationMessage(o, p)),
     HmacSha256Hex("guessed_secret", ConfirmationMessage(o, p)),
     HmacSha256Hex(KeySecret, ConfirmationMessage(o, OtherPaymentId(p)))}

Confirmation(o, p, sig) ==
    [razorpay_order_id |-> o, razorpay_payment_id |-> p,
     razorpay_signature |-> sig]

\* Complete confirmations, and the gateway's confirmation of one pair with
\* each field missing in turn.
ConfirmationInputs ==
    UNION {{Confirmation(o, p, sig) : sig \in SignatureInputs(o, p)} :
              o \in OrderIdInputs, p \in PaymentIdInputs}
    \cup
    (LET o == CHOOSE x \in OrderIdInputs : (OrderIds # {} => x \in OrderIds)
         p == "pay_1"
         sig == HmacSha256Hex(KeySecret, ConfirmationMessage(o, p))
     IN  {Confirmation(Undefined, p, sig), Confirmation(o, Undefined, sig),
          Confirmation(o, p, Undefined)})

ErrorData == [code |-> "BAD_REQUEST_ERROR", description |-> "declined"]

\* (orderId, errorData)
FailureInputs ==
    {<<o, ErrorData>> : o \in OrderIdInputs}
        \cup {<<UnknownOrderId, UndefinedObj>>}

WebhookEvent(e, o, p) ==
    [event |-> e,
     payload |-> [payment |-> [entity |-> [id |-> p, order_id |-> o]],
                  order   |-> [entity |-> [id |-> o]]]]

WebhookInputs ==
    {WebhookEvent(e, o, p) :
        e \in {"payment.captured", "payment.failed"}, o \in OrderIdInputs,
        p \in PaymentIdInputs}
    \cup {WebhookEvent("order.paid", o, Undefined) : o \in OrderIdInputs}
    \cup {WebhookEvent("refund.created", UnknownOrderId, Undefined)}

\* Webhooks of a known event without the payload, and with a payload
\* without its parts.
MalformedWebhookInputs ==
    {[event |-> "payment.captured", payload |-> UndefinedObj],
     [event |-> "order.paid",
      payload |-> [payment |-> UndefinedObj, order |-> UndefinedObj]]}

(***************************************************************************)
(* Specifications.                                                         *)
(***************************************************************************)
Init ==
    /\ orders = <<>>
    /\ payments = <<>>
    /\ now = 1999
    /\ last = Returned("constructor", <<>>, UndefinedObj)

\* The store holds at most MaxOrders orders: a call that would store one
\* more is left out; a call that throws, or that replaces a stored order,
\* is always possible.
Room(planType, userDetails, suffix) ==
    \/ PlanLookup(planType) = UndefinedObj
    \/ userDetails = UndefinedObj
    \/ OrderIdOf(now, suffix) \in OrderIds
    \/ Cardinality(OrderIds) < MaxOrders

\* Math.random may repeat a suffix: a createOrder whose id is in use
\* replaces the stored order.
Next ==
    \/ \E c \in CreateInputs, s \in RandomSuffixes, later \in LaterReads :
          Room(c[2], c[3], s)
          /\ createOrder(c[1], c[2], c[3], s, later)
    \/ \E data \in ConfirmationInputs, later \in LaterReads :
          verifyPayment(data, later)
    \/ \E f \in FailureInputs : handlePaymentFailure(f[1], f[2])
    \/ \E ev \in WebhookInputs \cup MalformedWebhookInputs :
          processWebhook(ev)
    \/ Tick

Spec == Init /\ [][Next]_vars

(***************************************************************************)
(* Vocabulary of the properties.                                           *)
(***************************************************************************)
StoresUnchanged == orders' = orders /\ payments' = payments

\* The Payments in store m that name order o.
PaymentsOf(m, o) == {i \in 1..Len(m) : m[i].orderId = o}

\* The gateway's own confirmation of a stored order: every field present
\* and the signature the digest of that very pair under the key secret.
Genuine(data) ==
    /\ data.razorpay_order_id \in OrderIds
    /\ ~Falsy(data.razorpay_payment_id)
    /\ data.razorpay_signature =
          HmacSha256Hex(KeySecret,
              ConfirmationMessage(data.razorpay_order_id,
                                  data.razorpay_payment_id))

\* The body of a webhook as the gateway sends it, and the gateway's
\* signature of it.
RawBody(ev) ==
    ev.event \o " " \o ev.payload.order.entity.id \o " "
        \o ev.payload.payment.entity.id

GatewaySignature(ev) == HmacSha256Hex(WebhookSecret, RawBody(ev))

\* C1: a valid confirmation submitted a second time changes neither store,
\* leaves exactly one Payment under its payment id and is answered as the
\* first time.
C1_ReplayIsNoOp ==
    [][( /\ last.op = "verifyPayment" /\ last.ok
         /\ last'.op = "verifyPayment" /\ last'.ok
         /\ last'.args = last.args )
       => /\ StoresUnchanged
          /\ last'.response = last.response
          /\ Cardinality({i \in 1..Len(payments') :
                payments'[i].id = last'.args.razorpay_payment_id}) = 1]_vars

\* C2: every Payment names a stored Order, and no Order is named by more
\* than one Payment.
C2_OnePaymentPerOrder ==
    /\ \A i \in 1..Len(payments) : payments[i].orderId \in OrderIds
    /\ \A o \in OrderIds : Cardinality(PaymentsOf(payments, o)) <= 1

\* C3: a verifyPayment call that fails leaves both stores as they were,
\* and every call fails but the gateway's own confirmation of a stored
\* order (another secret, another pair, an unknown order or a missing field
\* ends in an error).
C3_RejectionChangesNothing ==
    [][last'.op = "verifyPayment"
       => /\ ~last'.ok => StoresUnchanged
          /\ last'.ok => Genuine(last'.args)]_vars

\* C3's case: a forged confirmation for an order still `created` has just
\* been rejected, and no Payment is stored.
C3_Witness ==
    /\ last.op = "verifyPayment"
    /\ last.error = "Payment verification failed: Invalid payment signature"
    /\ payments = <<>>
    /\ \E o \in OrderIds : orders[o].status = "created"

\* C4: of the confirmations and webhooks for one order only one makes the
\* transition to paid: a call that succeeds for an order already paid
\* changes no stored state.
C4_OnePaidTransition ==
    [][\A o \in OrderIds :
         ( /\ orders[o].status = "paid"
           /\ last'.ok
           /\ \/ /\ last'.op = "verifyPayment"
                 /\ last'.args.razorpay_order_id = o
              \/ /\ last'.op = "processWebhook"
                 /\ last'.args.payload.order.entity.id = o )
         => StoresUnchanged]_vars

\* C5: handlePaymentFailure on a paid order leaves it paid and records no
\* failure detail on it.
C5_PaidNeverMarkedFailed ==
    [][\A o \in OrderIds :
         ( /\ orders[o].status = "paid"
           /\ last'.op = "handlePaymentFailure"
           /\ last'.ok
           /\ last'.args[1] = o )
         => /\ orders'[o].status = "paid"
            /\ orders'[o].error = orders[o].error
            /\ orders'[o].failedAt = orders[o].failedAt]_vars

\* C6: a payment.failed webhook processed for an order that is paid leaves
\* the order paid.
C6_FailedWebhookKeepsPaid ==
    [][last'.op = "processWebhook"
       => \A o \in OrderIds :
            orders[o].status = "paid"
            => \A p \in PaymentIdInputs :
                 processWebhook(WebhookEvent("payment.failed", o, p))
                 => orders'[o].status = "paid"]_vars

\* C6's case: a payment.failed webhook has just been processed while an
\* order was paid.
C6_Witness ==
    /\ last.op = "processWebhook"
    /\ last.error = "this.handlePaymentFailed is not a function"
    /\ \E o \in OrderIds : orders[o].status = "paid"

\* C7: a validly signed order.paid webhook processed for a failed order
\* makes the order paid, with exactly one Payment for it.
C7_FailedThenPaidRecovery ==
    [][\A ev \in WebhookInputs :
         ( /\ ev.event = "order.paid"
           /\ validateWebhook(RawBody(ev), GatewaySignature(ev))
           /\ ev.payload.order.entity.id \in OrderIds
           /\ orders[ev.payload.order.entity.id].status = "failed"
           /\ processWebhook(ev) )
         => /\ orders'[ev.payload.order.entity.id].status = "paid"
            /\ Cardinality(PaymentsOf(payments',
                  ev.payload.order.entity.id)) = 1]_vars

\* C8: a payment.captured webhook naming a created order and a payment id
\* reports success, makes the order paid under that payment id and stores
\* the Payment.
C8_CapturedWebhookPays ==
    [][\A ev \in WebhookInputs :
         ( /\ ev.event = "payment.captured"
           /\ ev.payload.payment.entity.order_id \in OrderIds
           /\ orders[ev.payload.payment.entity.order_id].status = "created"
           /\ processWebhook(ev) )
         => /\ last'.ok
            /\ orders'[ev.payload.payment.entity.order_id].status = "paid"
            /\ orders'[ev.payload.payment.entity.order_id].paymentId =
                  ev.payload.payment.entity.id
            /\ PaymentsHas(payments', ev.payload.payment.entity.id)]_vars

\* C9: every stored Payment carries the amount and the currency of the
\* stored Order it names.
C9_AmountCopiedFromOrder ==
    \A i \in 1..Len(payments) :
        /\ payments[i].orderId \in OrderIds
        /\ payments[i].amount = orders[payments[i].orderId].amount
        /\ payments[i].currency = orders[payments[i].orderId].currency

\* C10: an order's paymentId, once set, is never changed, and it is set
\* only by a step that leaves the order paid.
C10_PaymentIdSetOnce ==
    [][\A o \in OrderIds :
         /\ ~Falsy(orders[o].paymentId)
               => orders'[o].paymentId = orders[o].paymentId
         /\ orders'[o].paymentId # orders[o].paymentId
               => orders'[o].status = "paid"]_vars

\* C11: a Payment in the store stays in the store, with every field as it
\* was stored, whatever operation runs next.
C11_PaymentImmutable ==
    [][\A i \in 1..Len(payments) :
         /\ PaymentsHas(payments', payments[i].id)
         /\ PaymentsGet(payments', payments[i].id) = payments[i]]_vars

\* C12: handlePaymentFailure on a stored order in status created leaves it
\* failed, with attempts one higher and the supplied failure detail
\* recorded; no step lowers an order's attempts.
C12_FailureCountsAttempt ==
    [][/\ ( /\ last'.op = "handlePaymentFailure"
            /\ last'.ok
            /\ last'.args[1] \in OrderIds
            /\ orders[last'.args[1]].status = "created" )
          => /\ orders'[last'.args[1]].status = "failed"
             /\ orders'[last'.args[1]].attempts =
                   orders[last'.args[1]].attempts + 1
             /\ orders'[last'.args[1]].error = last'.args[2]
       /\ \A o \in OrderIds :
             /\ o \in DOMAIN orders'
             /\ orders'[o].attempts >= orders[o].attempts]_vars

(***************************************************************************)
(* createOrder with a plan name the catalog object inherits.               *)
(***************************************************************************)
\* CreateInputs and a planType that is no entry of the catalog but a
\* property every object has.
CreateInputsInherited ==
    CreateInputs \cup {<<"u1", k, Details>> :
                        k \in {"toString", "constructor", "__proto__"}}

NextInherited ==
    \/ \E c \in CreateInputsInherited, s \in RandomSuffixes,
             later \in LaterReads :
          Room(c[2], c[3], s)
          /\ createOrder(c[1], c[2], c[3], s, later)
    \/ \E data \in ConfirmationInputs, later \in LaterReads :
          verifyPayment(data, later)
    \/ \E f \in FailureInputs : handlePaymentFailure(f[1], f[2])
    \/ \E ev \in WebhookInputs \cup MalformedWebhookInputs :
          processWebhook(ev)
    \/ Tick

SpecInherited == Init /\ [][NextInherited]_vars

\* C13: createOrder returns only for a planType that is an entry of the
\* catalog (for any other it ends in an error), and a createOrder that ends
\* in an error leaves both stores as they were.
C13_UnknownPlanRejected ==
    [][last'.op = "createOrder"
       => /\ last'.ok => last'.args[2] \in PlanKeys
          /\ ~last'.ok => StoresUnchanged]_vars

\* C14: createOrder called with a plan of the catalog returns, stores one
\* Order under an id the store did not hold and changes no other Order;
\* the stored Order is `created`, has attempts 0, the plan's price times
\* 100 as amount (29900 for standard) and the given userId and planType;
\* the descriptor returned carries the stored Order's id and amount; the
\* payment store is unchanged.
C14_CreateStoresOrder ==
    [][last'.op = "createOrder"
       => \A c \in CreateInputs, s \in RandomSuffixes, later \in LaterReads :
            (c[2] \in PlanKeys /\ createOrder(c[1], c[2], c[3], s, later))
            => /\ last'.ok
               /\ last'.response.order.id \notin OrderIds
               /\ DOMAIN orders' = OrderIds \cup {last'.response.order.id}
               /\ \A o \in OrderIds : orders'[o] = orders[o]
               /\ LET stored == orders'[last'.response.order.id]
                  IN  /\ stored.status = "created"
                      /\ stored.attempts = 0
                      /\ stored.amount = plans[c[2]].price * 100
                      /\ c[2] = "standard" => stored.amount = 29900
                      /\ stored.userId = c[1]
                      /\ stored.planType = c[2]
                      /\ last'.response.order.id = stored.id
                      /\ last'.response.order.amount = stored.amount
               /\ payments' = payments]_vars

\* The event types processWebhook has a case for.
KnownEvents == {"payment.captured", "payment.failed", "order.paid"}

\* C15: processWebhook given an event of any other type returns success
\* and leaves both stores as they were.
C15_UnknownEventNoOp ==
    [][last'.op = "processWebhook"
       => \A ev \in WebhookInputs :
            (ev.event \notin KnownEvents /\ processWebhook(ev))
            => /\ last'.ok
               /\ last'.response = [success |-> TRUE]
               /\ StoresUnchanged]_vars

\* C15's case: a webhook of an unrecognized type has just been processed
\* while an order was in the store.
C15_Witness ==
    /\ last.op = "processWebhook" /\ last.ok
    /\ last.args.event = "refund.created"
    /\ OrderIds # {}

(***************************************************************************)
(* The service with its read-only operations called as well.  Each of      *)
(* these specifications has a step for every method that writes a store    *)
(* (createOrder, verifyPayment, handlePaymentFailure); their inputs are     *)
(* subsets of those of Next.                                                *)
(***************************************************************************)
\* createOrder calls that store an order.
QueryCreateInputs ==
    {c \in CreateInputs : c[2] \in PlanKeys /\ c[3] # UndefinedObj}

\* The gateway's own confirmations of the stored orders.
GenuineConfirmationInputs == {data \in ConfirmationInputs : Genuine(data)}

\* The raw body of one webhook as received.
WebhookBody == RawBody(WebhookEvent("order.paid", UnknownOrderId, Undefined))

\* (body, signature): the body with the gateway's signature, with the
\* digest under the key secret instead of the webhook secret and with the
\* gateway's signature of a body one byte longer; and a call without body.
ValidateInputs ==
    {<<WebhookBody, HmacSha256Hex(WebhookSecret, WebhookBody)>>,
     <<WebhookBody, HmacSha256Hex(KeySecret, WebhookBody)>>,
     <<WebhookBody, HmacSha256Hex(WebhookSecret, WebhookBody \o " ")>>,
     <<Undefined, HmacSha256Hex(WebhookSecret, Undefined)>>}

\* The users of CreateInputs.
UserIdInputs == {c[1] : c \in CreateInputs}

\* processWebhook and validateWebhook read neither the user nor the plan
\* of an order: the createOrder calls of one user for one plan.
WebhookCreateInputs == {c \in QueryCreateInputs : c[1] = "u1"}

\* The failure callbacks for the stored orders.
StoredFailureInputs == {f \in FailureInputs : f[1] \in OrderIds}

\* Every call that changes a store, and every confirmation.
NextConfirmations ==
    \/ \E c \in QueryCreateInputs, s \in RandomSuffixes,
             later \in LaterReads :
          Room(c[2], c[3], s)
          /\ createOrder(c[1], c[2], c[3], s, later)
    \/ \E data \in ConfirmationInputs, later \in LaterReads :
          verifyPayment(data, later)
    \/ \E f \in StoredFailureInputs : handlePaymentFailure(f[1], f[2])
    \/ Tick

SpecConfirmations == Init /\ [][NextConfirmations]_vars

\* Every call that changes a store, and the history read.
NextQueries ==
    \/ \E c \in QueryCreateInputs, s \in RandomSuffixes,
             later \in LaterReads :
          Room(c[2], c[3], s)
          /\ createOrder(c[1], c[2], c[3], s, later)
    \/ \E data \in GenuineConfirmationInputs, later \in LaterReads :
          verifyPayment(data, later)
    \/ \E f \in FailureInputs : handlePaymentFailure(f[1], f[2])
    \/ Tick
    \/ \E u \in UserIdInputs : CallGetUserPayments(u)

SpecQueries == Init /\ [][NextQueries]_vars

\* The calls that write a store (createOrder, verifyPayment,
\* handlePaymentFailure) and the webhook operations.
NextWebhooks ==
    \/ \E c \in WebhookCreateInputs, s \in RandomSuffixes,
             later \in LaterReads :
          Room(c[2], c[3], s)
          /\ createOrder(c[1], c[2], c[3], s, later)
    \/ \E data \in GenuineConfirmationInputs, later \in LaterReads :
          verifyPayment(data, later)
    \/ \E f \in FailureInputs : handlePaymentFailure(f[1], f[2])
    \/ Tick
    \/ \E ev \in WebhookInputs \cup MalformedWebhookInputs :
          processWebhook(ev)
    \/ \E v \in ValidateInputs : CallValidateWebhook(v[1], v[2])

SpecWebhooks == Init /\ [][NextWebhooks]_vars

\* C16: validateWebhook answers true only for the digest of the body under
\* the webhook secret (and answers true for it when there is a body), a
\* call of it changes neither store, and no processWebhook call, whatever
\* its body, changes a store.
C16_UnverifiedWebhookRejected ==
    [][/\ last'.op = "validateWebhook"
          => /\ last'.response = TRUE
                  => last'.args[2] =
                        HmacSha256Hex(WebhookSecret, last'.args[1])
             /\ ( /\ last'.args[1] # Undefined
                  /\ last'.args[2] =
                        HmacSha256Hex(WebhookSecret, last'.args[1]) )
                  => last'.response = TRUE
             /\ StoresUnchanged
       /\ last'.op = "processWebhook" => StoresUnchanged]_vars

\* C16's case: validateWebhook has just answered false to a body signed
\* with another secret, with an order in the store.
C16_Witness ==
    /\ last.op = "validateWebhook" /\ last.ok
    /\ last.response = FALSE
    /\ last.args[2] = HmacSha256Hex(KeySecret, last.args[1])
    /\ OrderIds # {}

\* The place of the Payment with the given id in the payment store.
PlaceOf(m, key) == CHOOSE i \in 1..Len(m) : m[i].id = key

\* C17: getUserPayments(userId) returns one entry for each stored Payment
\* of that user and no other entry, each with the Payment's own data; the
\* entries are in descending order of createdAt, entries of equal
\* createdAt in the order of their Payments in the store; the call changes
\* neither store.
C17_HistoryOfUser ==
    [][last'.op = "getUserPayments"
       => LET history == last'.response
              userId == last'.args[1]
              owned == {i \in 1..Len(payments) : payments[i].userId = userId}
          IN  /\ Len(history) = Cardinality(owned)
              /\ \A i \in owned :
                    \E j \in 1..Len(history) : history[j].id = payments[i].id
              /\ \A j \in 1..Len(history) :
                    /\ PaymentsHas(payments, history[j].id)
                    /\ LET payment == PaymentsGet(payments, history[j].id)
                       IN  /\ payment.userId = userId
                           /\ history[j].orderId = payment.orderId
                           /\ history[j].amount * 100 = payment.amount
                           /\ history[j].planType = payment.planType
                           /\ history[j].status = payment.status
                           /\ history[j].createdAt = payment.createdAt
              /\ \A j, k \in 1..Len(history) :
                    j < k
                    => \/ DateParse(history[j].createdAt)
                             > DateParse(history[k].createdAt)
                       \/ /\ history[j].createdAt = history[k].createdAt
                          /\ PlaceOf(payments, history[j].id)
                                < PlaceOf(payments, history[k].id)
              /\ StoresUnchanged]_vars

\* C17's case: getUserPayments has just returned two entries, the Payment
\* stored second first because it was created later.
C17_Witness ==
    /\ last.op = "getUserPayments" /\ last.ok
    /\ Len(last.response) = 2
    /\ Len(payments) = 2
    /\ last.response[1].id = payments[2].id
    /\ DateParse(payments[2].createdAt) > DateParse(payments[1].createdAt)

\* C18: a createOrder call that returns stores its Order under an id no
\* stored Order has: the Orders already stored stay as they are and the
\* store grows by one Order with each such call, calls within one
\* millisecond included.
C18_OrderIdsNeverReused ==
    [][(last'.op = "createOrder" /\ last'.ok)
       => \A c \in CreateInputs, s \in RandomSuffixes, later \in LaterReads :
            createOrder(c[1], c[2], c[3], s, later)
            => /\ OrderIdOf(now, s) \notin OrderIds
               /\ \A o \in OrderIds : orders'[o] = orders[o]
               /\ Cardinality(DOMAIN orders') = Cardinality(OrderIds) + 1]_vars

\* C19: every stored Order that is paid has a paymentId, the payment store
\* holds a Payment under that id, and getPaymentStatus of the Order returns
\* a payment that is not null.
C19_PaidOrderHasPayment ==
    \A o \in OrderIds :
        orders[o].status = "paid"
        => /\ ~Falsy(orders[o].paymentId)
           /\ PaymentsHas(payments, orders[o].paymentId)
           /\ getPaymentStatus(o).payment # Null
           /\ getPaymentStatus(o).payment.id = orders[o].paymentId

\* C19's case: an Order is paid under the second payment id confirmed for
\* it, and getPaymentStatus reports it paid.
C19_Witness ==
    \E o \in OrderIds :
        /\ orders[o].status = "paid"
        /\ Len(payments) = 2
        /\ orders[o].paymentId = payments[2].id
        /\ getPaymentStatus(o).order.status = "paid"

\* C20: handlePaymentFailure called with an order id the store does not
\* hold returns the failure response (success false), raising no error,
\* and leaves both stores as they were.
C20_UnknownOrderFailureNoOp ==
    [][last'.op = "handlePaymentFailure"
       => \A f \in FailureInputs :
            (f[1] \notin OrderIds /\ handlePaymentFailure(f[1], f[2]))
            => /\ last'.ok
               /\ last'.response.success = FALSE
               /\ StoresUnchanged]_vars

====
